---- MODULE Spec2Model ----
(***************************************************************************)
(* A model of the cachify LRU cache (src/lru.go, src/types.go): the map    *)
(* index, the recency list, the default expiration, the eviction callback, *)
(* the background sweeper and the sync.RWMutex that guards them.           *)
(*                                                                         *)
(* Time is a natural number.  time.Time{} (the zero time) is ZeroTime and  *)
(* the cache is constructed at ZeroTime + 1, so that every real instant is *)
(* after the zero time, as in Go.                                          *)
(***************************************************************************)
EXTENDS Integers, Sequences, FiniteSets, TLC

\* ---------------------------------------------------------------- bounds
\* Spec: the LRU core, no expiration.  SpecExpiry: expiration, time and the
\* sweeper, over fewer keys.
Keys == {"a", "b", "c"}
ExpiryKeys == {"a", "b"}
Values == {"v1", "v2"}
MaxCapacity == 3
MaxExpiryCapacity == 2
MaxTime == 3
MaxSweepTime == 5
\* ExpandExpiry extends an expiry to at most this much past a fresh entry's
MaxExpand == 1
\* durations handed to NewLRUExpires and SetExpiry (0 = no expiration)
Durations == {0, 1, 2}
\* default expirations of the caches of SpecSweep
SweepDurations == {2, 3}
\* durations handed to ExpandExpiry
ExpandDurations == {1}
Capacities == -1 .. MaxCapacity
ExpiryCapacities == -1 .. MaxExpiryCapacity

\* ------------------------------------------------------------- constants
ZeroTime == 0
\* the time of construction
StartTime == ZeroTime + 1
Nil == "nil"
\* a callback that records its arguments
Callbacks == {"cb1"}
\* a callback that calls c.Len() on the cache that invoked it
ReentrantCallbacks == {"cbLen"}
\* the concurrent callers, and what they call with
Procs == {"p1", "p2"}
ConcKeys == {"a", "b"}
ConcValues == {"v1"}
ConcCapacities == {1}
ConcDurations == {2}

VARIABLES
    c,          \* the LRU object: capacity, cache (index), list, onEvict,
                \* expiration; and calls, what the onEvict callback has recorded
                \* of its invocations during the operation in op
    now,        \* time.Now()
    ticker,     \* the sweeper's ticker: [running, period, next]
    pc,         \* "idle", or the operation that is inside its loop
    op,         \* the operation that ran last: [name, key], for Set and
                \* Update the value given, for Get what it returned:
                \* [value, ok], for Set in ok whether the key was present,
                \* for SetCallback the callback given (value), for Clear
                \* in ok whether there was an entry
    pre,        \* the recency list when the running SetCapacity was called
    touchOrder, \* the keys of the cache, least recently touched first
    mutex,      \* the sync.RWMutex: [writer, readers] (SpecConc)
    proc,       \* the concurrent callers: where each is in its call (SpecConc)
    sweeper     \* the goroutine of startCleanup: [pc, stop, tick], where it
                \* is, the channel c.stopCleanup and whether ticker.C holds
                \* a tick (SpecStop)

vars == <<c, now, ticker, pc, op, pre, touchOrder, mutex, proc, sweeper>>

\* ------------------------------------------------- container/list helpers
\* The list holds the entries, front (most recently used) first.
RECURSIVE IndexOf(_, _, _)
IndexOf(l, key, i) ==
    IF i > Len(l) THEN 0
    ELSE IF l[i].key = key THEN i ELSE IndexOf(l, key, i + 1)

Element(l, key) == l[IndexOf(l, key, 1)]

ListKeys(l) == {l[i].key : i \in 1 .. Len(l)}

Remove(l, key) ==
    LET i == IndexOf(l, key, 1)
    IN  IF i = 0 THEN l ELSE SubSeq(l, 1, i - 1) \o SubSeq(l, i + 1, Len(l))

PushFront(l, e) == <<e>> \o l

MoveToFront(l, key) ==
    IF IndexOf(l, key, 1) = 0 THEN l ELSE <<Element(l, key)>> \o Remove(l, key)

\* list.Back() and list.Front(): the entry of the last (first) element,
\* NilElement for an empty list
NilElement == [key |-> Nil, value |-> Nil, expiration |-> ZeroTime]

Back(l) == IF Len(l) = 0 THEN NilElement ELSE l[Len(l)]

Front(l) == IF Len(l) = 0 THEN NilElement ELSE l[1]

\* entry.value = value; entry.expiration = exp, in place
SetEntry(l, key, value, exp) ==
    [i \in 1 .. Len(l) |->
        IF l[i].key = key
        THEN [key |-> key, value |-> value, expiration |-> exp]
        ELSE l[i]]

\* ------------------------------------------------------------ time.Time
After(t, u) == t > u

\* ----------------------------------------------------------- operations
NewLRU(capacity) ==
    [capacity |-> capacity, cache |-> {}, list |-> <<>>,
     onEvict |-> Nil, expiration |-> 0, calls |-> <<>>]

NewLRUCallback(capacity, callback) ==
    [NewLRU(capacity) EXCEPT !.onEvict = callback]

SetExpiry_Retroactive(s, expiry) ==
    [s EXCEPT !.expiration = expiry,
              !.list = [i \in 1 .. Len(@) |->
                          [@[i] EXCEPT !.expiration = @ + expiry]]]

SetExpiry(s, expiry) == [s EXCEPT !.expiration = expiry]

NewLRUExpires(capacity, expiry) == SetExpiry(NewLRU(capacity), expiry)

calculateExpiry_Unset(s, t) == ZeroTime

calculateExpiry(s, t) ==
    IF s.expiration > 0 THEN t + s.expiration ELSE ZeroTime

\* evict, of the element that holds `entry`: the callback first, then the
\* index, then the list (list.Remove leaves a list alone that no longer holds
\* the element).
evictCallback_Skip(s, entry) == s

evictCallback(s, entry) ==
    [s EXCEPT !.calls = IF s.onEvict # Nil
                        THEN Append(@, <<s.onEvict, entry.key, entry.value>>)
                        ELSE @]

evictRemove(s, entry) ==
    [s EXCEPT !.cache = @ \ {entry.key}, !.list = Remove(@, entry.key)]

evict(s, entry) == evictRemove(evictCallback(s, entry), entry)

\* Get's test of an element it found in the index
GetExpired_NotBefore(s, entry, t) ==
    s.expiration > 0 /\ ~After(entry.expiration, t)

GetExpired(s, entry, t) == s.expiration > 0 /\ After(t, entry.expiration)

Get_Refresh(s, key, t) ==
    IF key \in s.cache
    THEN IF GetExpired(s, Element(s.list, key), t)
         THEN evict(s, Element(s.list, key))
         ELSE [s EXCEPT !.list = MoveToFront(
                  SetEntry(@, key, Element(@, key).value,
                           calculateExpiry(s, t)), key)]
    ELSE s

Get_NoPromote(s, key, t) ==
    IF key \in s.cache /\ GetExpired(s, Element(s.list, key), t)
    THEN evict(s, Element(s.list, key))
    ELSE s

Get(s, key, t) ==
    IF key \in s.cache
    THEN IF GetExpired(s, Element(s.list, key), t)
         THEN evict(s, Element(s.list, key))
         ELSE [s EXCEPT !.list = MoveToFront(@, key)]
    ELSE s

\* what Get returns: <<value, ok>>
GetResult(s, key, t) ==
    IF key \in s.cache
    THEN IF GetExpired(s, Element(s.list, key), t)
         THEN <<Nil, FALSE>>
         ELSE <<Element(s.list, key).value, TRUE>>
    ELSE <<Nil, FALSE>>

\* Set, an existing key: the entry is rewritten in place and moved to the front
SetExisting_Evict(s, key, value, t) ==
    LET moved == [s EXCEPT !.list = MoveToFront(
                      SetEntry(@, key, value, calculateExpiry(s, t)), key)]
    IN  IF Cardinality(s.cache) >= s.capacity /\ Len(s.list) > 1
        THEN evict(moved, Back(moved.list))
        ELSE moved

SetExisting(s, key, value, t) ==
    [s EXCEPT !.list = MoveToFront(
                  SetEntry(@, key, value, calculateExpiry(s, t)), key)]

\* Set, a new key: PushFront and the index
SetNew(s, key, value, t) ==
    [s EXCEPT !.list = PushFront(@, [key |-> key, value |-> value,
                                     expiration |-> calculateExpiry(s, t)]),
              !.cache = @ \cup {key}]

SetOverflows_Unbounded(s) ==
    s.capacity > 0 /\ Cardinality(s.cache) > s.capacity

SetOverflows_OffByOne(s) == Cardinality(s.cache) > s.capacity + 1

SetOverflows(s) == Cardinality(s.cache) > s.capacity

Set(s, key, value, t) ==
    IF key \in s.cache
    THEN SetExisting(s, key, value, t)
    ELSE LET pushed == SetNew(s, key, value, t)
         IN  IF SetOverflows(pushed) /\ Back(pushed.list) # NilElement
             THEN evict(pushed, Back(pushed.list))
             ELSE pushed

Update_Upsert(s, key, value, t) ==
    IF key \in s.cache THEN SetExisting(s, key, value, t)
    ELSE SetNew(s, key, value, t)

Update(s, key, value, t) ==
    IF key \in s.cache THEN SetExisting(s, key, value, t) ELSE s

RemoveKey_OrBack(s, key) ==
    IF key \in s.cache THEN evict(s, Element(s.list, key))
    ELSE IF Back(s.list) # NilElement THEN evict(s, Back(s.list)) ELSE s

RemoveKey(s, key) ==
    IF key \in s.cache THEN evict(s, Element(s.list, key)) ELSE s

Clear_IndexOnly(s) == [s EXCEPT !.cache = {}]

Clear_Forget(s) == [NewLRU(s.capacity) EXCEPT !.calls = s.calls]

Clear(s) == [s EXCEPT !.cache = {}, !.list = <<>>]

SetCallback_Keep(s, callback) ==
    IF s.onEvict # Nil THEN s ELSE [s EXCEPT !.onEvict = callback]

SetCallback(s, callback) == [s EXCEPT !.onEvict = callback]

ExpandExpiry_Replace(s, key, expiry) ==
    IF key \in s.cache
    THEN [s EXCEPT !.list = MoveToFront(
             SetEntry(@, key, Element(@, key).value, ZeroTime + expiry), key)]
    ELSE s

ExpandExpiry(s, key, expiry) ==
    IF key \in s.cache
    THEN LET entry == Element(s.list, key)
         IN  [s EXCEPT !.list = MoveToFront(
                 SetEntry(@, key, entry.value, entry.expiration + expiry), key)]
    ELSE s

\* ------------------------------------------------- read-only operations
IsMostRecentlyUsed_Back(s, key) ==
    Back(s.list) # NilElement /\ Back(s.list).key = key

IsMostRecentlyUsed(s, key) ==
    Front(s.list) # NilElement /\ Front(s.list).key = key

IsExpired(s, key, t) ==
    IF key \in s.cache
    THEN s.expiration > 0 /\ After(t, Element(s.list, key).expiration)
    ELSE FALSE

Contains(s, key) == key \in s.cache

\* Len and IsEmpty
CacheLen(s) == Cardinality(s.cache)

IsEmpty(s) == CacheLen(s) = 0

\* Pairs: <<key, value, ok>> of the back of the list
Pairs_Front(s) ==
    IF Front(s.list) # NilElement
    THEN <<Front(s.list).key, Front(s.list).value, TRUE>>
    ELSE <<"", Nil, FALSE>>

Pairs(s) ==
    IF Back(s.list) # NilElement
    THEN <<Back(s.list).key, Back(s.list).value, TRUE>>
    ELSE <<"", Nil, FALSE>>

\* GetAll: the map from every key of the index to its entry's value
GetAll(s) == [key \in s.cache |-> Element(s.list, key).value]

\* NewState().WithKey(..).WithValue(..).WithAccessTime(t).WithExpiration(..)
State(entry, t) ==
    [key |-> entry.key, value |-> entry.value, accessTime |-> t,
     expiration |-> entry.expiration]

\* GetStates: one state per key of the index (the order of the slice is that
\* of the map's iteration and is left open)
GetStates(s, t) == {State(Element(s.list, key), t) : key \in s.cache}

\* GetState and GetMostRecentlyUsed: <<state, ok>>
GetState(s, t) ==
    IF Back(s.list) # NilElement
    THEN <<State(Back(s.list), t), TRUE>>
    ELSE <<State(NilElement, ZeroTime), FALSE>>

GetMostRecentlyUsed(s, t) ==
    IF Front(s.list) # NilElement
    THEN <<State(Front(s.list), t), TRUE>>
    ELSE <<State(NilElement, ZeroTime), FALSE>>

\* time.Until(t) = t.Sub(time.Now()): a difference that does not fit a
\* Duration is the minimum Duration; the zero time is further from every real
\* instant than a Duration can hold
MinDuration == -1000000

Until(t, u) == IF t = ZeroTime THEN MinDuration ELSE t - u

\* PersistExpiry: <<remain, ok>>
PersistExpiry(s, key, t) ==
    IF key \in s.cache /\ s.expiration > 0
    THEN <<Until(Element(s.list, key).expiration, t), TRUE>>
    ELSE <<0, FALSE>>

ReadOnly == {"Contains", "IsExpired", "Len", "IsEmpty", "Pairs", "GetAll",
             "GetStates", "GetState", "GetMostRecentlyUsed",
             "IsMostRecentlyUsed", "PersistExpiry"}

KeyedReadOnly == {"Contains", "IsExpired", "IsMostRecentlyUsed", "PersistExpiry"}

\* what the read-only operation `name` returns
Result(s, name, key, t) ==
    CASE name = "Contains" -> <<Contains(s, key)>>
      [] name = "IsExpired" -> <<IsExpired(s, key, t)>>
      [] name = "Len" -> <<CacheLen(s)>>
      [] name = "IsEmpty" -> <<IsEmpty(s)>>
      [] name = "Pairs" -> Pairs(s)
      [] name = "GetAll" -> <<GetAll(s)>>
      [] name = "GetStates" -> <<GetStates(s, t)>>
      [] name = "GetState" -> GetState(s, t)
      [] name = "GetMostRecentlyUsed" -> GetMostRecentlyUsed(s, t)
      [] name = "IsMostRecentlyUsed" -> <<IsMostRecentlyUsed(s, key)>>
      [] name = "PersistExpiry" -> PersistExpiry(s, key, t)

\* the cache after the read-only operation `name`: none of them assigns to a
\* field, an entry, the index or the list
Peek_Touch(s, name, key, t) ==
    IF name = "IsExpired" /\ IsExpired(s, key, t)
    THEN evict(s, Element(s.list, key))
    ELSE IF name = "Contains" THEN [s EXCEPT !.list = MoveToFront(@, key)]
    ELSE s

Peek(s, name, key, t) == s

\* SetCapacity: the assignment, the loop test and one pass of the loop body
SetCapacityAssign(s, capacity) == [s EXCEPT !.capacity = capacity]

SetCapacityTest(s) == Cardinality(s.cache) > s.capacity

SetCapacityBody_Front(s) ==
    IF Front(s.list) # NilElement THEN evict(s, Front(s.list)) ELSE s

SetCapacityBody(s) ==
    IF Back(s.list) # NilElement THEN evict(s, Back(s.list)) ELSE s

\* cleanupExpired: the map is ranged over in the order `order` (Go leaves the
\* order open); a key evicted while ranging is not produced again.
cleanupTest(entry, t) == After(entry.expiration, t)

RECURSIVE cleanupExpired(_, _, _)
cleanupExpired(s, order, t) ==
    IF order = <<>> THEN s
    ELSE LET key == Head(order)
         IN  IF key \in s.cache /\ cleanupTest(Element(s.list, key), t)
             THEN cleanupExpired(evict(s, Element(s.list, key)), Tail(order), t)
             ELSE cleanupExpired(s, Tail(order), t)

\* startCleanup: the ticker's period
TickerPeriod_Full(expiry) == expiry

TickerPeriod(expiry) == expiry \div 2

\* durations for which NewLRUExpires gets a ticker (time.NewTicker needs a
\* positive period)
TickerDurations == {d \in Durations : TickerPeriod(d) > 0}

\* ------------------------------------------------ bookkeeping of the model
\* every operation starts with an empty record of callback invocations
Begin(s) == [s EXCEPT !.calls = <<>>]

NoTicker == [running |-> FALSE, period |-> 0, next |-> 0]

Restrict(order, S) == SelectSeq(order, LAMBDA k : k \in S)

\* key was touched: it becomes the most recently touched key
Touch(order, key) == SelectSeq(order, LAMBDA k : k # key) \o <<key>>

Orders(S) == {o \in [1 .. Cardinality(S) -> S] : {o[i] : i \in DOMAIN o} = S}

Called(name, key, value, ok) ==
    [name |-> name, key |-> key, value |-> value, ok |-> ok]

\* sync.RWMutex with nobody holding it, and a caller between two calls
Unlocked == [writer |-> Nil, readers |-> [p \in Procs |-> 0]]

Idle == [pc |-> "idle", name |-> Nil, key |-> Nil, value |-> Nil,
         entry |-> NilElement, arg |-> 0]

\* no goroutine, and c.stopCleanup as NewLRU leaves it: a nil channel
NoSweeper == [pc |-> "none", stop |-> Nil, tick |-> FALSE]

\* ------------------------------------------------------------------ Init
InitCommon ==
    /\ now = StartTime
    /\ pc = "idle"
    /\ op = Called("New", Nil, Nil, FALSE)
    /\ pre = <<>>
    /\ touchOrder = <<>>
    /\ mutex = Unlocked
    /\ proc = [p \in Procs |-> Idle]
    /\ sweeper = NoSweeper

\* NewLRU or NewLRUCallback
Init ==
    /\ InitCommon
    /\ ticker = NoTicker
    /\ \E capacity \in Capacities :
          \/ c = NewLRU(capacity)
          \/ \E callback \in Callbacks : c = NewLRUCallback(capacity, callback)

\* any of the three constructors; NewLRUExpires starts the sweeper
InitExpiry ==
    /\ InitCommon
    /\ \E capacity \in ExpiryCapacities :
          \/ /\ c = NewLRU(capacity)
             /\ ticker = NoTicker
          \/ /\ \E callback \in Callbacks : c = NewLRUCallback(capacity, callback)
             /\ ticker = NoTicker
          \/ \E expiry \in TickerDurations :
                /\ c = NewLRUExpires(capacity, expiry)
                /\ ticker = [running |-> TRUE, period |-> TickerPeriod(expiry),
                             next |-> now + TickerPeriod(expiry)]

\* ------------------------------------------------- the sequential actions
\* One caller at a time: each action is a whole call, from Lock to Unlock.
GetOp(key) ==
    /\ pc = "idle"
    /\ c' = Get(Begin(c), key, now)
    /\ LET got == GetResult(c, key, now)
       IN  /\ op' = Called("Get", key, got[1], got[2])
           /\ touchOrder' = Restrict(IF got[2] THEN Touch(touchOrder, key)
                                     ELSE touchOrder, c'.cache)
    /\ pre' = <<>>
    /\ UNCHANGED <<now, ticker, pc, mutex, proc, sweeper>>

SetOp(key, value) ==
    /\ pc = "idle"
    /\ c' = Set(Begin(c), key, value, now)
    /\ op' = Called("Set", key, value, key \in c.cache)
    /\ touchOrder' = Restrict(Touch(touchOrder, key), c'.cache)
    /\ pre' = <<>>
    /\ UNCHANGED <<now, ticker, pc, mutex, proc, sweeper>>

UpdateOp(key, value) ==
    /\ pc = "idle"
    /\ c' = Update(Begin(c), key, value, now)
    /\ op' = Called("Update", key, value, FALSE)
    /\ touchOrder' = Restrict(Touch(touchOrder, key), c'.cache)
    /\ pre' = <<>>
    /\ UNCHANGED <<now, ticker, pc, mutex, proc, sweeper>>

RemoveOp(key) ==
    /\ pc = "idle"
    /\ c' = RemoveKey(Begin(c), key)
    /\ op' = Called("Remove", key, Nil, FALSE)
    /\ touchOrder' = Restrict(touchOrder, c'.cache)
    /\ pre' = <<>>
    /\ UNCHANGED <<now, ticker, pc, mutex, proc, sweeper>>

ClearOp ==
    /\ pc = "idle"
    /\ c' = Clear(Begin(c))
    /\ op' = Called("Clear", Nil, Nil, c.cache # {})
    /\ touchOrder' = Restrict(touchOrder, c'.cache)
    /\ pre' = <<>>
    /\ UNCHANGED <<now, ticker, pc, mutex, proc, sweeper>>

SetCallbackOp(callback) ==
    /\ pc = "idle"
    /\ c' = SetCallback(Begin(c), callback)
    /\ op' = Called("SetCallback", Nil, callback, FALSE)
    /\ pre' = <<>>
    /\ UNCHANGED <<now, ticker, pc, touchOrder, mutex, proc, sweeper>>

SetExpiryOp(expiry) ==
    /\ pc = "idle"
    /\ c' = SetExpiry(Begin(c), expiry)
    /\ op' = Called("SetExpiry", Nil, Nil, FALSE)
    /\ pre' = <<>>
    /\ UNCHANGED <<now, ticker, pc, touchOrder, mutex, proc, sweeper>>

ExpandExpiryOp(key, expiry) ==
    /\ pc = "idle"
    /\ key \in c.cache =>
          Element(c.list, key).expiration + expiry <= now + c.expiration + MaxExpand
    /\ c' = ExpandExpiry(Begin(c), key, expiry)
    /\ op' = Called("ExpandExpiry", key, Nil, FALSE)
    /\ touchOrder' = Restrict(Touch(touchOrder, key), c'.cache)
    /\ pre' = <<>>
    /\ UNCHANGED <<now, ticker, pc, mutex, proc, sweeper>>

\* a read-only operation, under RLock; op records what it returned
ReadOp(name, key) ==
    /\ pc = "idle"
    /\ c' = Peek(Begin(c), name, key, now)
    /\ op' = [Called(name, key, Nil, FALSE) EXCEPT
                 !.value = Result(c, name, key, now)]
    /\ touchOrder' = Restrict(touchOrder, c'.cache)
    /\ pre' = <<>>
    /\ UNCHANGED <<now, ticker, pc, mutex, proc, sweeper>>

\* SetCapacity runs its loop one pass per step, holding the lock (pc).
SetCapacityCall(capacity) ==
    /\ pc = "idle"
    /\ c' = SetCapacityAssign(Begin(c), capacity)
    /\ pc' = "SetCapacity"
    /\ op' = Called("SetCapacity", Nil, Nil, FALSE)
    /\ pre' = c.list
    /\ UNCHANGED <<now, ticker, touchOrder, mutex, proc, sweeper>>

SetCapacityLoop ==
    /\ pc = "SetCapacity"
    /\ SetCapacityTest(c)
    /\ c' = SetCapacityBody(c)
    /\ touchOrder' = Restrict(touchOrder, c'.cache)
    /\ UNCHANGED <<now, ticker, pc, op, pre, mutex, proc, sweeper>>

SetCapacityReturn ==
    /\ pc = "SetCapacity"
    /\ ~SetCapacityTest(c)
    /\ pc' = "idle"
    /\ UNCHANGED <<c, now, ticker, op, pre, touchOrder, mutex, proc, sweeper>>

\* The sweeper: the ticker fires at ticker.next and startCleanup runs
\* cleanupExpired.
Tick ==
    /\ pc = "idle"
    /\ ticker.running
    /\ now = ticker.next
    /\ \E order \in Orders(c.cache) : c' = cleanupExpired(Begin(c), order, now)
    /\ ticker' = [ticker EXCEPT !.next = @ + ticker.period]
    /\ op' = Called("cleanupExpired", Nil, Nil, FALSE)
    /\ touchOrder' = Restrict(touchOrder, c'.cache)
    /\ pre' = <<>>
    /\ UNCHANGED <<now, pc, mutex, proc, sweeper>>

\* Time passes; a running ticker fires before time passes its next tick.
Advance(limit) ==
    /\ pc = "idle"
    /\ now < limit
    /\ ticker.running => now < ticker.next
    /\ now' = now + 1
    /\ UNCHANGED <<c, ticker, pc, op, pre, touchOrder, mutex, proc, sweeper>>

Next ==
    \/ \E key \in Keys : GetOp(key)
    \/ \E key \in Keys, value \in Values : SetOp(key, value)
    \/ \E key \in Keys, value \in Values : UpdateOp(key, value)
    \/ \E key \in Keys : RemoveOp(key)
    \/ ClearOp
    \/ \E callback \in Callbacks \cup {Nil} : SetCallbackOp(callback)
    \/ \E key \in Keys, expiry \in ExpandDurations : ExpandExpiryOp(key, expiry)
    \/ \E capacity \in Capacities : SetCapacityCall(capacity)
    \/ SetCapacityLoop
    \/ SetCapacityReturn

Spec == Init /\ [][Next]_vars

NextExpiry ==
    \/ \E key \in ExpiryKeys : GetOp(key)
    \/ \E key \in ExpiryKeys, value \in Values : SetOp(key, value)
    \/ \E key \in ExpiryKeys, value \in Values : UpdateOp(key, value)
    \/ \E key \in ExpiryKeys : RemoveOp(key)
    \/ ClearOp
    \/ \E callback \in Callbacks \cup {Nil} : SetCallbackOp(callback)
    \/ \E expiry \in Durations : SetExpiryOp(expiry)
    \/ \E key \in ExpiryKeys, expiry \in ExpandDurations : ExpandExpiryOp(key, expiry)
    \/ \E capacity \in ExpiryCapacities : SetCapacityCall(capacity)
    \/ SetCapacityLoop
    \/ SetCapacityReturn
    \/ Tick
    \/ Advance(MaxTime)

SpecExpiry == InitExpiry /\ [][NextExpiry]_vars

\* The operations that read or write the default expiration and the entries'
\* expiresAt, with time and the sweeper, on a cache whose capacity stays as
\* constructed.
NextTtl ==
    \/ \E key \in ExpiryKeys : GetOp(key)
    \/ \E key \in ExpiryKeys, value \in Values : SetOp(key, value)
    \/ \E key \in ExpiryKeys, value \in Values : UpdateOp(key, value)
    \/ \E key \in ExpiryKeys : RemoveOp(key)
    \/ ClearOp
    \/ \E callback \in Callbacks \cup {Nil} : SetCallbackOp(callback)
    \/ \E expiry \in Durations : SetExpiryOp(expiry)
    \/ \E key \in ExpiryKeys, expiry \in ExpandDurations : ExpandExpiryOp(key, expiry)
    \/ Tick
    \/ Advance(MaxTime)

SpecTtl == InitExpiry /\ [][NextTtl]_vars

\* The read-only operations, on a cache without a sweeper whose entries are
\* written, read, removed and left to expire.
InitRead ==
    /\ InitCommon
    /\ ticker = NoTicker
    /\ \E capacity \in ExpiryCapacities :
          \/ c = NewLRU(capacity)
          \/ \E callback \in Callbacks : c = NewLRUCallback(capacity, callback)

NextRead ==
    \/ \E key \in ExpiryKeys : GetOp(key)
    \/ \E key \in ExpiryKeys, value \in Values : SetOp(key, value)
    \/ \E key \in ExpiryKeys : RemoveOp(key)
    \/ \E expiry \in Durations : SetExpiryOp(expiry)
    \/ \E name \in KeyedReadOnly, key \in ExpiryKeys : ReadOp(name, key)
    \/ \E name \in ReadOnly \ KeyedReadOnly : ReadOp(name, Nil)
    \/ Advance(MaxTime)

SpecRead == InitRead /\ [][NextRead]_vars

\* A cache built by NewLRUExpires whose default expiration stays as
\* constructed, so the sweeper's period stays half of it.
InitSweep ==
    /\ InitCommon
    /\ \E capacity \in ExpiryCapacities, expiry \in SweepDurations :
          /\ TickerPeriod(expiry) > 0
          /\ c = NewLRUExpires(capacity, expiry)
          /\ ticker = [running |-> TRUE, period |-> TickerPeriod(expiry),
                       next |-> now + TickerPeriod(expiry)]

NextSweep ==
    \/ \E key \in ExpiryKeys : GetOp(key)
    \/ \E key \in ExpiryKeys, value \in Values : SetOp(key, value)
    \/ \E key \in ExpiryKeys, value \in Values : UpdateOp(key, value)
    \/ \E key \in ExpiryKeys : RemoveOp(key)
    \/ ClearOp
    \/ \E callback \in Callbacks \cup {Nil} : SetCallbackOp(callback)
    \/ \E capacity \in ExpiryCapacities : SetCapacityCall(capacity)
    \/ SetCapacityLoop
    \/ SetCapacityReturn
    \/ Tick
    \/ Advance(MaxSweepTime)

SpecSweep == InitSweep /\ [][NextSweep]_vars

\* ------------------------------------------------- the concurrent callers
\* Each caller takes the guard as the code does (Lock or RLock), runs its
\* operation and releases the guard.  Get reads the index and decides, then
\* acts, in two steps: under RLock other readers run between them.
LockMode(name) ==
    IF name \in {"Get", "Len", "Pairs"} THEN "R" ELSE "W"

Inside(p) == proc[p].pc \notin {"idle", "lock"}

\* a caller is inside Lock(), waiting: new readers queue behind it
WriterPending(p) == proc[p].pc = "lock" /\ LockMode(proc[p].name) = "W"

CanLock_Shared == mutex.writer = Nil

CanLock == mutex.writer = Nil /\ \A q \in Procs : mutex.readers[q] = 0

CanRLock(p) ==
    /\ mutex.writer = Nil
    /\ ~\E q \in Procs \ {p} : WriterPending(q)
    /\ sweeper.pc # "cleanupExpired"

Call(p, name, key, value) ==
    /\ proc[p].pc = "idle"
    /\ proc' = [proc EXCEPT ![p] = [Idle EXCEPT !.pc = "lock", !.name = name,
                                                 !.key = key, !.value = value]]
    /\ UNCHANGED <<c, now, ticker, pc, op, pre, touchOrder, mutex, sweeper>>

\* a call whose argument is a duration or a capacity
CallWith(p, name, arg) ==
    /\ proc[p].pc = "idle"
    /\ proc' = [proc EXCEPT ![p] = [Idle EXCEPT !.pc = "lock", !.name = name,
                                                 !.arg = arg]]
    /\ UNCHANGED <<c, now, ticker, pc, op, pre, touchOrder, mutex, sweeper>>

Acquire(p) ==
    /\ proc[p].pc = "lock"
    /\ IF LockMode(proc[p].name) = "W"
       THEN /\ CanLock
            /\ mutex' = [mutex EXCEPT !.writer = p]
       ELSE /\ CanRLock(p)
            /\ mutex' = [mutex EXCEPT !.readers[p] = @ + 1]
    /\ proc' = [proc EXCEPT ![p].pc =
                   IF proc[p].name = "Get" THEN "check" ELSE "body"]
    /\ c' = IF CanLock THEN Begin(c) ELSE c
    /\ UNCHANGED <<now, ticker, pc, op, pre, touchOrder, sweeper>>

\* Get, lines 40-42: the index and the expiry test
GetCheck(p) ==
    /\ proc[p].pc = "check"
    /\ proc' = [proc EXCEPT ![p] =
          IF proc[p].key \in c.cache
          THEN [@ EXCEPT !.pc = "act", !.entry = Element(c.list, proc[p].key)]
          ELSE [@ EXCEPT !.pc = "unlock"]]
    /\ UNCHANGED <<c, now, ticker, pc, op, pre, touchOrder, mutex, sweeper>>

\* the operation evicts `entry`: with a callback that calls back into the
\* cache, the callback is entered and the removal waits for its return
Evicting(p, s, entry) ==
    IF s.onEvict \in ReentrantCallbacks
    THEN /\ c' = evictCallback(s, entry)
         /\ proc' = [proc EXCEPT ![p].pc = "callback", ![p].entry = entry]
    ELSE /\ c' = evict(s, entry)
         /\ proc' = [proc EXCEPT ![p].pc = "unlock"]

Finishing(p, s) ==
    /\ c' = s
    /\ proc' = [proc EXCEPT ![p].pc = "unlock"]

\* Get, lines 42-49: evict the expired element, or move it to the front
GetAct(p) ==
    /\ proc[p].pc = "act"
    /\ IF GetExpired(c, proc[p].entry, now)
       THEN Evicting(p, c, proc[p].entry)
       ELSE Finishing(p, [c EXCEPT !.list = MoveToFront(@, proc[p].key)])
    /\ UNCHANGED <<now, ticker, pc, op, pre, touchOrder, mutex, sweeper>>

Body(p) ==
    /\ proc[p].pc = "body"
    /\ LET name == proc[p].name
           key == proc[p].key
           pushed == SetNew(c, key, proc[p].value, now)
       IN  IF name = "Set"
           THEN IF key \in c.cache
                THEN Finishing(p, SetExisting(c, key, proc[p].value, now))
                ELSE IF SetOverflows(pushed) /\ Back(pushed.list) # NilElement
                     THEN Evicting(p, pushed, Back(pushed.list))
                     ELSE Finishing(p, pushed)
           ELSE IF name = "Remove"
           THEN IF key \in c.cache
                THEN Evicting(p, c, Element(c.list, key))
                ELSE Finishing(p, c)
           ELSE IF name = "SetExpiry"
           THEN Finishing(p, SetExpiry(c, proc[p].arg))
           ELSE IF name = "SetCapacity"
           THEN /\ c' = SetCapacityAssign(c, proc[p].arg)
                /\ proc' = [proc EXCEPT ![p].pc = "loop"]
           ELSE Finishing(p, c)
    /\ UNCHANGED <<now, ticker, pc, op, pre, touchOrder, mutex, sweeper>>

\* SetCapacity, lines 181-186: the loop test and one pass (with a callback
\* that returns)
CapacityLoop(p) ==
    /\ proc[p].pc = "loop"
    /\ IF SetCapacityTest(c)
       THEN /\ c' = SetCapacityBody(c)
            /\ UNCHANGED proc
       ELSE Finishing(p, c)
    /\ UNCHANGED <<now, ticker, pc, op, pre, touchOrder, mutex, sweeper>>

\* inside the callback: c.Len() takes the guard in shared mode
InnerAcquire(p) ==
    /\ proc[p].pc = "callback"
    /\ CanRLock(p)
    /\ mutex' = [mutex EXCEPT !.readers[p] = @ + 1]
    /\ proc' = [proc EXCEPT ![p].pc = "inner"]
    /\ UNCHANGED <<c, now, ticker, pc, op, pre, touchOrder, sweeper>>

\* c.Len() returns and releases; the callback returns
InnerReturn(p) ==
    /\ proc[p].pc = "inner"
    /\ mutex' = [mutex EXCEPT !.readers[p] = @ - 1]
    /\ proc' = [proc EXCEPT ![p].pc = "remove"]
    /\ UNCHANGED <<c, now, ticker, pc, op, pre, touchOrder, sweeper>>

\* evict, lines 310-311, after the callback has returned
EvictRemove(p) ==
    /\ proc[p].pc = "remove"
    /\ c' = evictRemove(c, proc[p].entry)
    /\ proc' = [proc EXCEPT ![p].pc = "unlock"]
    /\ UNCHANGED <<now, ticker, pc, op, pre, touchOrder, mutex, sweeper>>

\* RWMutex.Unlock wakes the callers that wait in RLock(): they hold the guard
\* in shared mode from then on, before a later writer gets it.
Waiting_None(q) == FALSE

Waiting(q) == proc[q].pc = "lock" /\ LockMode(proc[q].name) = "R"

Admitted ==
    [q \in Procs |->
        IF Waiting(q)
        THEN [proc[q] EXCEPT !.pc = IF proc[q].name = "Get" THEN "check"
                                    ELSE "body"]
        ELSE proc[q]]

Unlock ==
    [writer |-> Nil,
     readers |-> [q \in Procs |->
                    IF Waiting(q) THEN mutex.readers[q] + 1
                    ELSE mutex.readers[q]]]

Release(p) ==
    /\ proc[p].pc = "unlock"
    /\ IF LockMode(proc[p].name) = "W"
       THEN /\ mutex' = Unlock
            /\ proc' = [Admitted EXCEPT ![p] = Idle]
            /\ c' = IF \E q \in Procs : Waiting(q) THEN Begin(c) ELSE c
       ELSE /\ mutex' = [mutex EXCEPT !.readers[p] = @ - 1]
            /\ proc' = [proc EXCEPT ![p] = Idle]
            /\ c' = c
    /\ UNCHANGED <<now, ticker, pc, op, pre, touchOrder, sweeper>>

InitConc ==
    /\ InitCommon
    /\ ticker = NoTicker
    /\ \E capacity \in ConcCapacities,
          callback \in Callbacks \cup ReentrantCallbacks :
          c = NewLRUCallback(capacity, callback)

NextConc ==
    \E p \in Procs :
        \/ \E key \in ConcKeys : Call(p, "Get", key, Nil)
        \/ \E key \in ConcKeys, value \in ConcValues : Call(p, "Set", key, value)
        \/ \E key \in ConcKeys : Call(p, "Remove", key, Nil)
        \/ \E expiry \in ConcDurations : CallWith(p, "SetExpiry", expiry)
        \/ Call(p, "Len", Nil, Nil)
        \/ Acquire(p)
        \/ GetCheck(p)
        \/ GetAct(p)
        \/ Body(p)
        \/ InnerAcquire(p)
        \/ InnerReturn(p)
        \/ EvictRemove(p)
        \/ Release(p)

SpecConc == InitConc /\ [][NextConc]_vars

\* ------------------------------------------ the sweeper and its stop signal
\* The goroutine of startCleanup step by step, one foreground caller whose
\* calls are whole (pc = "idle": the guard is free), and DestroyCleanup.
\* pc = "panic": the program has crashed.
StopKeys == {"a", "b"}
StopValues == {"v1"}
StopCapacities == {-1, 1, 2}
StopDurations == {0, 2, 4}

\* NewLRUExpires has made c.stopCleanup and started the goroutine
Started == [pc |-> "start", stop |-> "open", tick |-> FALSE]

InitStop ==
    /\ now = StartTime
    /\ pc = "idle"
    /\ pre = <<>>
    /\ touchOrder = <<>>
    /\ mutex = Unlocked
    /\ proc = [p \in Procs |-> Idle]
    /\ ticker = NoTicker
    /\ \E capacity \in StopCapacities :
          \/ /\ c = NewLRU(capacity)
             /\ sweeper = NoSweeper
             /\ op = Called("NewLRU", Nil, Nil, FALSE)
          \/ \E expiry \in StopDurations :
                /\ c = NewLRUExpires(capacity, expiry)
                /\ sweeper = Started
                /\ op = Called("NewLRUExpires", Nil, Nil, FALSE)

\* close(c.stopCleanup): of a nil or a closed channel it panics.  No guard is
\* taken.
DestroyCleanup ==
    /\ pc = "idle"
    /\ IF sweeper.stop = "open"
       THEN /\ sweeper' = [sweeper EXCEPT !.stop = "closed"]
            /\ pc' = pc
       ELSE /\ pc' = "panic"
            /\ UNCHANGED sweeper
    /\ op' = Called("DestroyCleanup", Nil, Nil, FALSE)
    /\ UNCHANGED <<c, now, ticker, pre, touchOrder, mutex, proc>>

\* startCleanup, line 331: the goroutine reads c.expiration when it first
\* runs; time.NewTicker panics unless the period is positive
SweeperStart ==
    /\ pc # "panic"
    /\ sweeper.pc = "start"
    /\ LET period == TickerPeriod(c.expiration)
       IN  IF period > 0
           THEN /\ ticker' = [running |-> TRUE, period |-> period,
                              next |-> now + period]
                /\ sweeper' = [sweeper EXCEPT !.pc = "select"]
                /\ pc' = pc
           ELSE /\ pc' = "panic"
                /\ UNCHANGED <<ticker, sweeper>>
    /\ UNCHANGED <<c, now, op, pre, touchOrder, mutex, proc>>

\* the runtime sends on ticker.C, a channel with a buffer of one: a tick that
\* finds the buffer full is dropped
TickerFire ==
    /\ pc # "panic"
    /\ ticker.running
    /\ now = ticker.next
    /\ ticker' = [ticker EXCEPT !.next = @ + ticker.period]
    /\ sweeper' = [sweeper EXCEPT !.tick = TRUE]
    /\ UNCHANGED <<c, now, pc, op, pre, touchOrder, mutex, proc>>

\* select, lines 334-339: when both channels are ready either case is chosen
SweeperSelectTick ==
    /\ pc # "panic"
    /\ sweeper.pc = "select"
    /\ sweeper.tick
    /\ sweeper' = [sweeper EXCEPT !.pc = "cleanupExpired", !.tick = FALSE]
    /\ UNCHANGED <<c, now, ticker, pc, op, pre, touchOrder, mutex, proc>>

\* case <-c.stopCleanup: return, and the deferred ticker.Stop()
SweeperSelectStop ==
    /\ pc # "panic"
    /\ sweeper.pc = "select"
    /\ sweeper.stop = "closed"
    /\ sweeper' = [sweeper EXCEPT !.pc = "exited"]
    /\ ticker' = [ticker EXCEPT !.running = FALSE]
    /\ UNCHANGED <<c, now, pc, op, pre, touchOrder, mutex, proc>>

\* cleanupExpired, called at line 336: it takes the guard and makes its pass
SweeperCleanup ==
    /\ pc = "idle"
    /\ sweeper.pc = "cleanupExpired"
    /\ \E order \in Orders(c.cache) : c' = cleanupExpired(Begin(c), order, now)
    /\ sweeper' = [sweeper EXCEPT !.pc = "select"]
    /\ op' = Called("cleanupExpired", Nil, Nil, FALSE)
    /\ touchOrder' = Restrict(touchOrder, c'.cache)
    /\ pre' = <<>>
    /\ UNCHANGED <<now, ticker, pc, mutex, proc>>

Sweeper ==
    \/ SweeperStart
    \/ SweeperSelectTick
    \/ SweeperSelectStop
    \/ SweeperCleanup

NextStop ==
    \/ \E key \in StopKeys : GetOp(key)
    \/ \E key \in StopKeys, value \in StopValues : SetOp(key, value)
    \/ \E expiry \in StopDurations : SetExpiryOp(expiry)
    \/ \E capacity \in StopCapacities : SetCapacityCall(capacity)
    \/ SetCapacityLoop
    \/ SetCapacityReturn
    \/ DestroyCleanup
    \/ TickerFire
    \/ Sweeper
    \/ Advance(MaxTime)

SpecStop == InitStop /\ [][NextStop]_vars

\* Fair scheduling: a goroutine that can take a step takes one; a select
\* whose stop case is ready again and again chooses it in the end (the choice
\* is uniformly random); a goroutine waiting in Lock() gets the guard if it is
\* free again and again (sync.Mutex hands over to a starving waiter).
FairSpecStop ==
    /\ SpecStop
    /\ WF_vars(Sweeper)
    /\ SF_vars(SweeperSelectStop)
    /\ SF_vars(SweeperCleanup)
    /\ WF_vars(SetCapacityLoop)
    /\ WF_vars(SetCapacityReturn)

\* --------------------------------------- concurrent callers and the sweeper
\* The callers of SpecConc and SetCapacity, with a callback that returns, and
\* the sweeper taking the guard for its pass.  Time stands still: ticks
\* arrive whenever the ticker runs.
LiveCapacities == {0, 2}
LiveDurations == {0}

InitLive ==
    /\ now = StartTime
    /\ pc = "idle"
    /\ op = Called("New", Nil, Nil, FALSE)
    /\ pre = <<>>
    /\ touchOrder = <<>>
    /\ mutex = Unlocked
    /\ proc = [p \in Procs |-> Idle]
    /\ sweeper = [Started EXCEPT !.pc = "select"]
    /\ \E capacity \in LiveCapacities, callback \in Callbacks :
          c = SetCallback(NewLRUExpires(capacity, 2), callback)
    /\ ticker = [running |-> TRUE, period |-> TickerPeriod(2),
                 next |-> now + TickerPeriod(2)]

TickArrives ==
    /\ ticker.running
    /\ ~sweeper.tick
    /\ sweeper.pc # "none"
    /\ sweeper' = [sweeper EXCEPT !.tick = TRUE]
    /\ UNCHANGED <<c, now, ticker, pc, op, pre, touchOrder, mutex, proc>>

\* cleanupExpired, lines 316-317: c.mutex.Lock()
SweeperLock ==
    /\ sweeper.pc = "cleanupExpired"
    /\ CanLock
    /\ mutex' = [mutex EXCEPT !.writer = "sweeper"]
    /\ sweeper' = [sweeper EXCEPT !.pc = "pass"]
    /\ UNCHANGED <<c, now, ticker, pc, op, pre, touchOrder, proc>>

\* lines 319-326: the pass over the map
SweeperPass ==
    /\ sweeper.pc = "pass"
    /\ \E order \in Orders(c.cache) : c' = cleanupExpired(Begin(c), order, now)
    /\ sweeper' = [sweeper EXCEPT !.pc = "unlock"]
    /\ UNCHANGED <<now, ticker, pc, op, pre, touchOrder, mutex, proc>>

\* the deferred Unlock; startCleanup is back at its select
SweeperUnlock ==
    /\ sweeper.pc = "unlock"
    /\ mutex' = Unlock
    /\ proc' = Admitted
    /\ c' = IF \E q \in Procs : Waiting(q) THEN Begin(c) ELSE c
    /\ sweeper' = [sweeper EXCEPT !.pc = "select"]
    /\ UNCHANGED <<now, ticker, pc, op, pre, touchOrder>>

SweeperLive ==
    \/ SweeperSelectTick
    \/ SweeperPass
    \/ SweeperUnlock

Running(p) ==
    \/ GetCheck(p)
    \/ GetAct(p)
    \/ Body(p)
    \/ CapacityLoop(p)
    \/ Release(p)

NextLive ==
    \/ \E p \in Procs :
          \/ \E key \in ConcKeys : Call(p, "Get", key, Nil)
          \/ \E key \in ConcKeys, value \in ConcValues : Call(p, "Set", key, value)
          \/ \E key \in ConcKeys : Call(p, "Remove", key, Nil)
          \/ \E expiry \in LiveDurations : CallWith(p, "SetExpiry", expiry)
          \/ \E capacity \in LiveCapacities : CallWith(p, "SetCapacity", capacity)
          \/ Call(p, "Len", Nil, Nil)
          \/ Acquire(p)
          \/ Running(p)
    \/ TickArrives
    \/ SweeperLock
    \/ SweeperLive

SpecLive == InitLive /\ [][NextLive]_vars

\* Fair scheduling: a goroutine that can take a step takes one; a goroutine
\* waiting in Lock() or RLock() gets the guard if it is free for it again and
\* again (sync.RWMutex queues readers behind a waiting writer and wakes the
\* waiting readers when the writer unlocks).
FairSpecLive ==
    /\ SpecLive
    /\ \A p \in Procs : WF_vars(Running(p)) /\ SF_vars(Acquire(p))
    /\ WF_vars(SweeperLive)
    /\ SF_vars(SweeperLock)

\* ------------------------------------------------ eviction, step by step
\* Two callers and the sweeper on a cache with a default expiration and a
\* callback, while time passes.  evict is taken one statement at a time: the
\* callback, the delete on the index, the removal from the list.
RaceKeys == {"a", "b"}
RaceValues == {"v1"}
RaceCapacities == {1, 2}
RaceTime == MaxTime + 1

InitRace ==
    /\ now = StartTime
    /\ pc = "idle"
    /\ op = Called("New", Nil, Nil, FALSE)
    /\ pre = <<>>
    /\ touchOrder = <<>>
    /\ mutex = Unlocked
    /\ proc = [p \in Procs |-> Idle]
    /\ sweeper = [Started EXCEPT !.pc = "select"]
    /\ \E capacity \in RaceCapacities :
          c = SetCallback(NewLRUExpires(capacity, 2), "cb1")
    /\ ticker = [running |-> TRUE, period |-> TickerPeriod(2),
                 next |-> now + TickerPeriod(2)]

\* the caller goes on to evict `entry`
Evict(p, s, entry) ==
    /\ c' = s
    /\ proc' = [proc EXCEPT ![p].pc = "evict", ![p].entry = entry]

\* Get, lines 42-49: the expiry test, then evict or MoveToFront
GetDecide(p) ==
    /\ proc[p].pc = "act"
    /\ IF GetExpired(c, proc[p].entry, now)
       THEN Evict(p, c, proc[p].entry)
       ELSE Finishing(p, [c EXCEPT !.list = MoveToFront(@, proc[p].key)])
    /\ UNCHANGED <<now, ticker, pc, op, pre, touchOrder, mutex, sweeper>>

\* Set, Remove and the readers Len and Pairs, up to the call of evict
RaceBody(p) ==
    /\ proc[p].pc = "body"
    /\ LET name == proc[p].name
           key == proc[p].key
           pushed == SetNew(c, key, proc[p].value, now)
       IN  IF name = "Set"
           THEN IF key \in c.cache
                THEN Finishing(p, SetExisting(c, key, proc[p].value, now))
                ELSE IF SetOverflows(pushed) /\ Back(pushed.list) # NilElement
                     THEN Evict(p, pushed, Back(pushed.list))
                     ELSE Finishing(p, pushed)
           ELSE IF name = "Remove" /\ key \in c.cache
           THEN Evict(p, c, Element(c.list, key))
           ELSE Finishing(p, c)
    /\ UNCHANGED <<now, ticker, pc, op, pre, touchOrder, mutex, sweeper>>

\* evict, lines 306-309: the callback
EvictNotify(p) ==
    /\ proc[p].pc = "evict"
    /\ c' = evictCallback(c, proc[p].entry)
    /\ proc' = [proc EXCEPT ![p].pc = "delete"]
    /\ UNCHANGED <<now, ticker, pc, op, pre, touchOrder, mutex, sweeper>>

\* line 310: delete(c.cache, key)
EvictDelete(p) ==
    /\ proc[p].pc = "delete"
    /\ c' = [c EXCEPT !.cache = @ \ {proc[p].entry.key}]
    /\ proc' = [proc EXCEPT ![p].pc = "unlink"]
    /\ UNCHANGED <<now, ticker, pc, op, pre, touchOrder, mutex, sweeper>>

\* line 311: c.list.Remove(element), which leaves the list alone if the
\* element is no longer in it
EvictUnlink(p) ==
    /\ proc[p].pc = "unlink"
    /\ c' = [c EXCEPT !.list = Remove(@, proc[p].entry.key)]
    /\ proc' = [proc EXCEPT ![p].pc = "unlock"]
    /\ UNCHANGED <<now, ticker, pc, op, pre, touchOrder, mutex, sweeper>>

\* cleanupExpired, lines 316-319: Lock() and now := time.Now()
SweeperEnter ==
    /\ sweeper.pc = "cleanupExpired"
    /\ CanLock
    /\ mutex' = [mutex EXCEPT !.writer = "sweeper"]
    /\ sweeper' = [sweeper EXCEPT !.pc = "pass"]
    /\ c' = Begin(c)
    /\ UNCHANGED <<now, ticker, pc, op, pre, touchOrder, proc>>

\* lines 320-325: the range over the map reaches an element that passes the
\* test and evicts it
SweeperEvict ==
    /\ sweeper.pc = "pass"
    /\ \E key \in c.cache :
          /\ cleanupTest(Element(c.list, key), now)
          /\ c' = evict(c, Element(c.list, key))
    /\ UNCHANGED <<now, ticker, pc, op, pre, touchOrder, mutex, proc, sweeper>>

\* the range is over: no element left passes the test
SweeperDone ==
    /\ sweeper.pc = "pass"
    /\ ~\E key \in c.cache : cleanupTest(Element(c.list, key), now)
    /\ sweeper' = [sweeper EXCEPT !.pc = "unlock"]
    /\ UNCHANGED <<c, now, ticker, pc, op, pre, touchOrder, mutex, proc>>

\* time passes; the pass of the sweeper, which reads the clock once (line
\* 319), is taken to last less than one unit of it
RaceAdvance ==
    /\ now < RaceTime
    /\ sweeper.pc # "pass"
    /\ now' = now + 1
    /\ UNCHANGED <<c, ticker, pc, op, pre, touchOrder, mutex, proc, sweeper>>

NextRace ==
    \/ \E p \in Procs :
          \/ \E key \in RaceKeys : Call(p, "Get", key, Nil)
          \/ \E key \in RaceKeys, value \in RaceValues : Call(p, "Set", key, value)
          \/ \E key \in RaceKeys : Call(p, "Remove", key, Nil)
          \/ Call(p, "Pairs", Nil, Nil)
          \/ Acquire(p)
          \/ GetCheck(p)
          \/ GetDecide(p)
          \/ RaceBody(p)
          \/ EvictNotify(p)
          \/ EvictDelete(p)
          \/ EvictUnlink(p)
          \/ Release(p)
    \/ TickArrives
    \/ SweeperSelectTick
    \/ SweeperEnter
    \/ SweeperEvict
    \/ SweeperDone
    \/ SweeperUnlock
    \/ RaceAdvance

SpecRace == InitRace /\ [][NextRace]_vars

\* ------------------------------------------- replacing the callback
\* A cache built with a callback, whose callback is replaced by another one
\* or by none while entries are evicted by Set, Remove and SetCapacity.
HandleCallbacks == {"cb1", "cb2"}
HandleCapacities == 1 .. MaxCapacity

InitCallback ==
    /\ InitCommon
    /\ ticker = NoTicker
    /\ \E capacity \in HandleCapacities : c = NewLRUCallback(capacity, "cb1")

NextCallback ==
    \/ \E key \in Keys : GetOp(key)
    \/ \E key \in Keys, value \in Values : SetOp(key, value)
    \/ \E key \in Keys : RemoveOp(key)
    \/ ClearOp
    \/ \E callback \in HandleCallbacks \cup {Nil} : SetCallbackOp(callback)
    \/ \E capacity \in HandleCapacities : SetCapacityCall(capacity)
    \/ SetCapacityLoop
    \/ SetCapacityReturn

SpecCallback == InitCallback /\ [][NextCallback]_vars

\* ------------------------------------------------------------- the claims
\* a step that is a whole call of the operation `name` (or, for SetCapacity,
\* its first step)
Calls(name) == pc = "idle" /\ now' = now /\ op'.name = name

\* the callback invocations a step adds
NewCalls ==
    IF pc = "idle" THEN c'.calls
    ELSE SubSeq(c'.calls, Len(c.calls) + 1, Len(c'.calls))

\* C1: with a capacity >= 0, after every completed call (Set, Get, Update,
\* Remove, Clear, SetCapacity, ...) the cache holds at most capacity entries.
C1_LenWithinCapacity ==
    (pc = "idle" /\ c.capacity >= 0) => Cardinality(c.cache) <= c.capacity

\* a Set has just overflowed a full cache and evicted an entry
C1_Witness ==
    /\ pc = "idle" /\ op.name = "Set"
    /\ c.capacity >= 1 /\ Cardinality(c.cache) = c.capacity
    /\ Len(c.calls) = 1

\* C2: a Set of a new key into a cache that holds capacity >= 1 entries evicts
\* exactly one entry, the least recently touched one (touches: Set, Update, a
\* successful Get, ExpandExpiry), and keeps every other entry.
C2_EvictsLeastRecentlyTouched ==
    [][(/\ Calls("Set")
        /\ op'.key \notin c.cache
        /\ c.capacity >= 1
        /\ Cardinality(c.cache) = c.capacity)
       => /\ c'.cache = (c.cache \ {Head(touchOrder)}) \cup {op'.key}
          /\ Head(touchOrder) # op'.key
          /\ c.onEvict # Nil =>
                /\ Len(c'.calls) = 1
                /\ c'.calls[1][2] = Head(touchOrder)]_vars

\* a Set has evicted b although a was inserted before b: a, b were set in that
\* order in a cache of capacity 2, a was touched again, c was set
C2_Witness ==
    /\ op.name = "Set" /\ op.key = "c"
    /\ c.capacity = 2
    /\ c.cache = {"a", "c"}
    /\ Len(c.calls) = 1 /\ c.calls[1][2] = "b"

\* C3: with a callback installed, every entry that leaves the cache in a step
\* of Set, Remove, SetCapacity, Get or the sweeper is reported by exactly one
\* callback invocation, with its key and the value it held; Clear invokes the
\* callback zero times.
C3_OneCallbackPerEviction ==
    [][(now' = now /\ c.onEvict # Nil)
       => IF Calls("Clear")
          THEN NewCalls = <<>>
          ELSE LET left == c.cache \ c'.cache
                   passed == IF /\ Calls("Set")
                                /\ op'.key \notin c.cache
                                /\ op'.key \notin c'.cache
                             THEN 1 ELSE 0
               IN  /\ Len(NewCalls) = Cardinality(left) + passed
                   /\ \A key \in left :
                        \E i \in 1 .. Len(NewCalls) :
                           NewCalls[i] =
                              <<c.onEvict, key, Element(c.list, key).value>>]_vars

\* a sweeper tick has evicted two entries and the callback ran twice
C3_Witness ==
    /\ op.name = "cleanupExpired"
    /\ Len(c.calls) = 2
    /\ c.cache = {}

\* C5: a sweeper tick removes every entry whose expiresAt is earlier than the
\* time of the tick, and the callback runs once for each.  (Stated of the
\* entries whose expiresAt was computed from a positive default expiration:
\* it is later than the time of construction.)
C5_TickRemovesExpired ==
    [][Calls("cleanupExpired")
       => \A i \in 1 .. Len(c.list) :
             (After(c.list[i].expiration, StartTime)
                /\ After(now, c.list[i].expiration))
             => /\ c.list[i].key \notin c'.cache
                /\ c.onEvict # Nil =>
                      \E j \in 1 .. Len(c'.calls) :
                         c'.calls[j][2] = c.list[i].key]_vars

\* C6: the sweeper never removes an entry that has not expired: an entry whose
\* expiresAt is not before the tick is still in the cache after the tick.
C6_TickKeepsUnexpired ==
    [][Calls("cleanupExpired")
       => \A i \in 1 .. Len(c.list) :
             ~After(now, c.list[i].expiration)
             => c.list[i].key \in c'.cache]_vars

\* C7: with a default expiration T > 0 that stays as constructed and the
\* sweeper ticking every T/2, no entry is in the cache later than 1.5*T after
\* it was written (its expiresAt is the time of the write + T).
C7_GoneWithinOneAndAHalfTTL ==
    \A i \in 1 .. Len(c.list) :
        2 * (now - (c.list[i].expiration - c.expiration)) <= 3 * c.expiration

\* the sweeper, not a Get, has removed an entry
C7_Witness ==
    /\ op.name = "cleanupExpired"
    /\ c.expiration > 0
    /\ Len(c.calls) >= 1
    /\ c.cache = {}

\* C9: SetCapacity terminates: every pass of its loop that runs takes an entry
\* out of the cache, so the loop test fails after finitely many passes.
C9_SetCapacityTerminates ==
    (pc = "SetCapacity" /\ SetCapacityTest(c))
    => Cardinality(SetCapacityBody(c).cache) < Cardinality(c.cache)

\* C10: SetCapacity(n), n >= 0, on a cache of m entries: if m <= n nothing is
\* evicted, the order is unchanged and a Set of a new key below n evicts
\* nothing; if m > n the m - n least recently used entries are evicted, least
\* recently used first, and the n most recently used stay in their order.
C10_SetCapacityShrinks ==
    (pc = "idle" /\ op.name = "SetCapacity" /\ c.capacity >= 0)
    => LET n == c.capacity
           m == Len(pre)
       IN  /\ c.cache = ListKeys(c.list)
           /\ IF m <= n
              THEN /\ c.list = pre
                   /\ c.calls = <<>>
                   /\ \A key \in Keys \ c.cache, value \in Values :
                         m < n => Len(Set(c, key, value, now).list) = m + 1
              ELSE /\ c.list = SubSeq(pre, 1, n)
                   /\ c.onEvict # Nil =>
                         c.calls = [i \in 1 .. m - n |->
                                      <<c.onEvict, pre[m + 1 - i].key,
                                        pre[m + 1 - i].value>>]

\* SetCapacity(1) on three entries has evicted two, least recently used first
C10_Witness ==
    /\ pc = "idle" /\ op.name = "SetCapacity"
    /\ c.capacity = 1 /\ Len(pre) = 3 /\ Len(c.list) = 1
    /\ Len(c.calls) = 2
    /\ c.calls[1][2] = pre[3].key /\ c.calls[2][2] = pre[2].key
    /\ c.list[1] = pre[1]

\* C4: a Get that promotes or evicts holds the guard exclusively: while it is
\* past its lookup, no other caller (another Get, Len, ...) is inside the
\* guard.
C4_GetIsExclusive ==
    \A p \in Procs :
        (proc[p].name = "Get" /\ proc[p].pc = "act")
        => \A q \in Procs \ {p} : ~Inside(q)

\* C8: a callback that calls back into the cache completes: its inner call is
\* never waiting for a guard that cannot be released before the inner call
\* returns (one that the operation that invoked the callback holds itself, or
\* one that is queued behind a writer that waits for that operation).
C8_ReentrantCallbackCompletes ==
    \A p \in Procs :
        proc[p].pc = "callback"
        => /\ mutex.writer # p
           /\ ~(mutex.readers[p] > 0 /\ \E q \in Procs \ {p} : WriterPending(q))

\* the entry of `key` was written at the present instant: its expiresAt is
\* what a write computes now
WrittenNow(key) ==
    key \in c.cache /\ Element(c.list, key).expiration = calculateExpiry(c, now)

\* C11: in a cache of capacity >= 1, a Get(k) that immediately follows a
\* Set(k, v) returns (v, true), and afterwards k is the most recently used key.
C11_SetThenGet ==
    [][(/\ op.name = "Set"
        /\ c.capacity >= 1
        /\ WrittenNow(op.key)
        /\ Calls("Get")
        /\ op'.key = op.key)
       => /\ op'.ok
          /\ op'.value = op.value
          /\ IsMostRecentlyUsed(c', op.key)]_vars

\* a Get has returned what the Set before it wrote, with an expiration set and
\* another entry in the cache
C11_Witness ==
    /\ op.name = "Get" /\ op.ok /\ op.value = "v2"
    /\ c.expiration > 0
    /\ Len(c.list) = 2
    /\ c.list[1].key = op.key /\ c.list[1].value = "v2"
    /\ c.list[1].expiration = now + c.expiration

C13_RemoveExactlyOne ==
    [][Calls("Remove")
       => LET key == op'.key
          IN  /\ key \notin c'.cache
              /\ RemoveKey(c', key) = c'
              /\ IF key \notin c.cache
                 THEN /\ c'.cache = c.cache
                      /\ c'.list = c.list
                      /\ c'.calls = <<>>
                 ELSE /\ c'.cache = c.cache \ {key}
                      /\ c'.list = Remove(c.list, key)
                      /\ c'.calls = IF c.onEvict # Nil
                                    THEN <<<<c.onEvict, key,
                                            Element(c.list, key).value>>>>
                                    ELSE <<>>
              /\ c'.capacity = c.capacity
              /\ c'.onEvict = c.onEvict
              /\ c'.expiration = c.expiration]_vars

\* a Remove of an absent key has left a cache of two entries as it was, and
\* the installed callback did not run
C13_Witness ==
    /\ op.name = "Remove" /\ op.key \notin c.cache
    /\ c.onEvict # Nil /\ c.calls = <<>>
    /\ Len(c.list) = 2

C15_UpdateKeepsOrder ==
    [][(Calls("Update") /\ op'.key \in c.cache)
       => /\ Front(c'.list).key = Front(c.list).key
          /\ Back(c'.list).key = Back(c.list).key]_vars

\* C16: once DestroyCleanup has returned the sweeper makes no further tick:
\* no call of cleanupExpired starts after the stop signal, also when a tick
\* is pending in ticker.C at the time of the signal.
C16_NoTickAfterStop ==
    [][sweeper.stop = "closed"
       => ~(sweeper.pc = "select" /\ sweeper'.pc = "cleanupExpired")]_vars

\* C17: after DestroyCleanup on a cache built by NewLRUExpires the sweeper
\* goroutine eventually exits (or the whole program has ended), under fair
\* scheduling and whatever the foreground caller goes on to call.
C17_SweeperExits ==
    (sweeper.stop = "closed") ~> (sweeper.pc = "exited" \/ pc = "panic")

\* C18: a cache constructed with a default expiration of zero, by NewLRU or
\* by NewLRUExpires(capacity, 0), runs no sweeper and is usable: the program
\* does not crash.
C18_NoSweeperWithoutExpiry ==
    (op.name \in {"NewLRU", "NewLRUExpires"} /\ c.expiration = 0)
    => /\ sweeper.pc \notin {"select", "cleanupExpired"}
       /\ pc # "panic"

\* C19: an entry whose expiresAt is the zero time (it was written while the
\* default expiration was zero) never expires, whatever is called later
\* (SetExpiry(d), d > 0, included): IsExpired reports false, a Get returns it
\* and no sweeper tick evicts it.
C19_UnsetNeverExpires ==
    [][\A key \in c.cache :
          Element(c.list, key).expiration = ZeroTime
          => /\ ~IsExpired(c, key, now)
             /\ (Calls("Get") /\ op'.key = key) => op'.ok
             /\ Calls("cleanupExpired") => key \in c'.cache]_vars

\* C20: SetExpiry(d) changes only the default expiration: contents, recency
\* order, capacity and every entry's expiresAt stay; d reaches an entry only
\* when a later Set or Update writes it (expiresAt = now + d, or the zero
\* time for d <= 0), and no call changes the expiresAt of an entry it was
\* not given (ExpandExpiry adds its own duration to the one it is given).
C20_SetExpiryOnlyDefault ==
    [][/\ Calls("SetExpiry")
          => /\ c'.list = c.list
             /\ c'.cache = c.cache
             /\ c'.capacity = c.capacity
             /\ c'.onEvict = c.onEvict
             /\ c'.calls = <<>>
             /\ ticker' = ticker
       /\ c'.list # c.list
          => \A key \in c.cache \cap c'.cache :
                Element(c'.list, key).expiration # Element(c.list, key).expiration
                => /\ op'.key = key
                   /\ \/ Calls("Set") \/ Calls("Update") \/ Calls("ExpandExpiry")
       /\ ((Calls("Set") \/ Calls("Update")) /\ op'.key \in c'.cache)
          => Element(c'.list, op'.key).expiration =
                IF c.expiration > 0 THEN now + c.expiration ELSE ZeroTime]_vars

\* SetExpiry(1) has left an entry written under the default 2 and one written
\* under the default 0 as they were
C20_Witness ==
    /\ op.name = "SetExpiry"
    /\ c.expiration = 1
    /\ Len(c.list) = 2
    /\ c.list[1].expiration = now + 2
    /\ c.list[2].expiration = ZeroTime

\* C21: Contains, IsExpired, Len, IsEmpty, Pairs, GetAll, GetStates, GetState,
\* GetMostRecentlyUsed, IsMostRecentlyUsed and PersistExpiry leave contents,
\* recency order and every expiresAt as they were (IsExpired does not evict
\* the expired entry it reports, no callback runs), and a GetState that
\* follows a GetState returns the same key.
C21_ReadOnlyLeavesCache ==
    [][\A name \in ReadOnly :
          Calls(name)
          => /\ c'.list = c.list
             /\ c'.cache = c.cache
             /\ c'.capacity = c.capacity
             /\ c'.onEvict = c.onEvict
             /\ c'.expiration = c.expiration
             /\ c'.calls = <<>>
             /\ touchOrder' = touchOrder
             /\ (name = "GetState" /\ op.name = "GetState")
                => /\ op'.value[2] = op.value[2]
                   /\ op'.value[1].key = op.value[1].key]_vars

\* IsExpired has reported an entry expired, and the entry is still there,
\* behind a younger one
C21_Witness ==
    /\ op.name = "IsExpired"
    /\ op.value = <<TRUE>>
    /\ Len(c.list) = 2
    /\ Back(c.list).key = op.key
    /\ c.onEvict # Nil /\ c.calls = <<>>

\* C22: a cache of capacity 0 (constructed so, or after SetCapacity(0)) is
\* well defined: it is empty between calls, SetCapacity(0) ends, and a Set(k, v)
\* inserts k and evicts it at once, with one callback (k, v), leaving the
\* cache empty.
C22_CapacityZero ==
    [][c.capacity = 0
       => /\ pc = "idle" => c.cache = {} /\ c.list = <<>>
          /\ (pc = "SetCapacity" /\ SetCapacityTest(c))
             => Cardinality(SetCapacityBody(c).cache) < Cardinality(c.cache)
          /\ Calls("Set")
             => /\ c'.cache = {} /\ c'.list = <<>>
                /\ c'.capacity = 0
                /\ c'.calls = IF c.onEvict # Nil
                              THEN <<<<c.onEvict, op'.key, op'.value>>>>
                              ELSE <<>>]_vars

\* after SetCapacity(0) has emptied the cache, a Set has inserted and evicted
\* its own key
C22_Witness ==
    /\ op.name = "Set"
    /\ c.capacity = 0
    /\ c.cache = {}
    /\ c.calls = <<<<"cb1", op.key, op.value>>>>

\* C23: DestroyCleanup never fails: called on a cache without a sweeper
\* (NewLRU, NewLRUCallback) or a second time, it returns and the program goes
\* on.
C23_DestroyCleanupNeverFails ==
    [][DestroyCleanup => pc' # "panic"]_vars

C25_PersistExpiryRemaining ==
    [][Calls("PersistExpiry")
       => op'.value = IF op'.key \in c.cache /\ c.expiration > 0
                      THEN <<Element(c.list, op'.key).expiration - now, TRUE>>
                      ELSE <<0, FALSE>>]_vars

\* C26: ExpandExpiry(k, d) on a present key sets the entry's expiresAt to
\* its previous expiresAt + d (not to now + d) and moves k to the head; its
\* value, every other entry, their order and the settings stay as they were.
\* On an absent key it changes nothing.
C26_ExpandExpiryAdds ==
    [][Calls("ExpandExpiry")
       => LET key == op'.key
              entry == Element(c.list, key)
          IN  /\ c'.cache = c.cache
              /\ c'.capacity = c.capacity /\ c'.expiration = c.expiration
              /\ c'.onEvict = c.onEvict /\ c'.calls = <<>>
              /\ IF key \in c.cache
                 THEN \E d \in ExpandDurations :
                         c'.list = <<[key |-> key, value |-> entry.value,
                                      expiration |-> entry.expiration + d]>>
                                   \o Remove(c.list, key)
                 ELSE c'.list = c.list]_vars

\* the tail entry, written earlier, has been expanded: it is at the head with
\* an expiresAt later than any Set could give it now
C26_Witness ==
    /\ op.name = "ExpandExpiry"
    /\ Len(c.list) = 2
    /\ Front(c.list).key = op.key
    /\ c.expiration > 0
    /\ Front(c.list).expiration > now + c.expiration
    /\ Front(c.list).expiration # now + MaxExpand

\* C27: after any sequence of operations, Pairs and GetState report the tail
\* entry: the present key whose last touch is the oldest, with its current
\* value, which is the entry that a Set of a new key evicts if that Set
\* overflows; they report not-found exactly when the cache is empty.
C27_PairsReportTail ==
    pc = "idle"
    => LET pairs == Pairs(c)
           state == GetState(c, now)
       IN  /\ pairs[3] = (c.cache # {})
           /\ state[2] = (c.cache # {})
           /\ c.cache = {} => pairs[1] = "" /\ pairs[2] = Nil
           /\ c.cache # {}
              => /\ pairs[1] = Head(touchOrder)
                 /\ pairs[2] = GetAll(c)[Head(touchOrder)]
                 /\ state[1].key = pairs[1] /\ state[1].value = pairs[2]
                 /\ \A key \in Keys \ c.cache, value \in Values :
                       SetOverflows(SetNew(c, key, value, now))
                       => Set(c, key, value, now).cache
                          = (c.cache \ {pairs[1]}) \cup {key}

\* a Get has just promoted a key of a full cache, and the tail that Pairs
\* reports is another key, one that holds its second value
C27_Witness ==
    /\ pc = "idle"
    /\ op.name = "Get" /\ op.ok
    /\ Len(c.list) = c.capacity /\ Len(c.list) >= 2
    /\ Pairs(c)[3]
    /\ Pairs(c)[1] # op.key
    /\ Pairs(c)[2] = "v2"
    /\ GetState(c, now)[1].key = Pairs(c)[1]

\* C28: IsMostRecentlyUsed(k) is true exactly when the cache is not empty and
\* k is the key of the head entry, the key inserted or touched last;
\* GetMostRecentlyUsed returns that key with its value; on an empty cache
\* they return false and not-found.
C28_HeadIsNewest ==
    pc = "idle"
    => LET mru == GetMostRecentlyUsed(c, now)
           last == touchOrder[Len(touchOrder)]
       IN  /\ mru[2] = (c.cache # {})
           /\ \A key \in Keys :
                 IsMostRecentlyUsed(c, key) = (c.cache # {} /\ key = last)
           /\ c.cache # {}
              => /\ mru[1].key = last
                 /\ mru[1].value = GetAll(c)[last]

\* a Get has brought a key to the head of a cache of three: it is the most
\* recently used one, the two others are not, and another key is the tail
C28_Witness ==
    /\ pc = "idle"
    /\ op.name = "Get" /\ op.ok
    /\ Len(c.list) = 3
    /\ IsMostRecentlyUsed(c, op.key)
    /\ GetMostRecentlyUsed(c, now)[1].key = op.key
    /\ GetMostRecentlyUsed(c, now)[1].value = op.value
    /\ \A key \in c.cache \ {op.key} : ~IsMostRecentlyUsed(c, key)
    /\ Pairs(c)[1] # op.key

\* C29: Set(k, v) on a key that is already present overwrites the value,
\* recomputes expiresAt from the default duration (now + default, or none
\* if the default is 0) and moves k to the head; it evicts nothing: the
\* other entries and the size are as before and no callback fires, also
\* when the cache is full.
C29_SetOfPresentKey ==
    [][(Calls("Set") /\ op'.key \in c.cache)
       => /\ c'.list = <<[key |-> op'.key, value |-> op'.value,
                          expiration |-> IF c.expiration > 0
                                         THEN now + c.expiration
                                         ELSE ZeroTime]>>
                       \o Remove(c.list, op'.key)
          /\ c'.cache = c.cache
          /\ Len(c'.list) = Len(c.list)
          /\ c'.calls = <<>>]_vars

\* a full cache with a callback: an entry written at an earlier time
\* has been set again and is now the head, with the new value and expiry
C29_Witness ==
    /\ op.name = "Set" /\ op.ok
    /\ c.onEvict # Nil
    /\ Len(c.list) = 2 /\ c.capacity = 2
    /\ now > StartTime
    /\ c.expiration > 0
    /\ Front(c.list) = [key |-> op.key, value |-> op.value,
                        expiration |-> now + c.expiration]
    /\ Back(c.list).expiration < now + c.expiration
    /\ c.calls = <<>>

\* C30: SetCallback(fn) replaces the notification handle. SetCallback itself
\* changes no entry and invokes nothing (not for entries evicted before it
\* either); from then on, until the next SetCallback, the handle is fn, and
\* every eviction invokes the handle in place when it happens, never an
\* earlier one.
C30_SetCallbackReplaces ==
    [][IF Calls("SetCallback")
       THEN /\ c'.onEvict = op'.value
            /\ c'.calls = <<>>
            /\ c'.list = c.list /\ c'.cache = c.cache
            /\ c'.capacity = c.capacity /\ c'.expiration = c.expiration
       ELSE /\ c'.onEvict = c.onEvict
            /\ \A i \in 1 .. Len(NewCalls) :
                  /\ c.onEvict # Nil
                  /\ NewCalls[i][1] = c.onEvict
            /\ (c.onEvict # Nil /\ Cardinality(c'.cache) < Cardinality(c.cache)
                   /\ op'.name # "Clear")
               => Len(NewCalls) = Cardinality(c.cache) - Cardinality(c'.cache)]_vars

\* the cache was built with cb1; after SetCallback(cb2) a Set into the full
\* cache has evicted the tail and that one eviction went to cb2
C30_Witness ==
    /\ op.name = "Set" /\ ~op.ok
    /\ c.onEvict = "cb2"
    /\ Len(c.list) = 2 /\ c.capacity = 2
    /\ Len(c.calls) = 1
    /\ c.calls[1][1] = "cb2"
    /\ c.calls[1][2] \notin c.cache

\* C31: whenever no operation is in progress, the index and the recency
\* sequence hold exactly the same keys, each key once, so Len() equals the
\* length of the sequence: after any sequence of Set, Get, Update, Remove,
\* Clear, SetCapacity, ExpandExpiry and sweeper ticks.
C31_IndexMatchesSequence ==
    pc = "idle"
    => /\ c.cache = ListKeys(c.list)
       /\ \A i, j \in 1 .. Len(c.list) :
             c.list[i].key = c.list[j].key => i = j
       /\ CacheLen(c) = Len(c.list)

\* the sweeper has just evicted one of two entries and the other one is
\* still in both structures
C31_Witness ==
    /\ pc = "idle"
    /\ op.name = "cleanupExpired"
    /\ Len(c.calls) = 1
    /\ Len(c.list) = 1
    /\ c.calls[1][2] \notin c.cache
    /\ c.list[1].key \in c.cache

\* C32: no concurrently running operation observes the index and the
\* sequence out of sync: a caller that is inside the guard and about to read
\* them (Pairs, Len, a Get at its lookup, a writer at its first statement)
\* finds the same keys in both, because nobody is between the delete on the
\* index and the removal from the list at that moment.
C32_NoTornRead ==
    \A q \in Procs :
        proc[q].pc \in {"check", "body"}
        => /\ c.cache = ListKeys(c.list)
           /\ \A p \in Procs \ {q} : proc[p].pc # "unlink"

\* C33: when two callers concurrently Get the same expired key, the entry is
\* evicted once and the callback fires exactly once for it: among the
\* invocations made since the guard was last free no key occurs twice.
C33_ExpiredGetEvictsOnce ==
    \A i, j \in 1 .. Len(c.calls) :
        c.calls[i][2] = c.calls[j][2] => i = j

\* C34: in every eviction path the callback is invoked before the removal:
\* at the moment the callback runs for key k, k is still present in the
\* index and in the sequence.
C34_CallbackBeforeRemoval ==
    [][(/\ Len(c'.calls) = Len(c.calls) + 1
        /\ SubSeq(c'.calls, 1, Len(c.calls)) = c.calls)
       => LET k == c'.calls[Len(c'.calls)][2]
          IN  k \in c.cache /\ k \in ListKeys(c.list)]_vars

\* C35: a sweeper tick is atomic: from its first test to its last eviction
\* the sweeper holds the guard exclusively, so no foreground operation is
\* inside the guard, and none reads the cache, while only some of the
\* entries that the tick removes have been removed.
C35_TickIsAtomic ==
    sweeper.pc \in {"pass", "unlock"}
    => /\ mutex.writer = "sweeper"
       /\ \A q \in Procs : ~Inside(q) /\ mutex.readers[q] = 0

\* the tick has evicted one of two entries and will evict the other; the
\* two callers wait for the guard in Pairs and in Get
C35_Witness ==
    /\ sweeper.pc = "pass"
    /\ Len(c.calls) = 1
    /\ Len(c.list) = 1
    /\ cleanupTest(c.list[1], now)
    /\ \E p, q \in Procs :
          /\ proc[p].pc = "lock" /\ proc[p].name = "Pairs"
          /\ proc[q].pc = "lock" /\ proc[q].name = "Get"

\* C36: after Clear the cache is empty: Len() = 0, IsEmpty() is true, every
\* Get misses and Pairs reports not-found. No callback is invoked, and
\* capacity, default expiration and callback are unchanged: the cache is what
\* a freshly constructed one with the same settings is, so later Sets behave
\* as on that one.
C36_ClearEmpties ==
    [][Calls("Clear")
       => /\ CacheLen(c') = 0 /\ IsEmpty(c')
          /\ \A key \in ExpiryKeys : GetResult(c', key, now) = <<Nil, FALSE>>
          /\ ~Pairs(c')[3]
          /\ c'.capacity = c.capacity
          /\ c'.expiration = c.expiration
          /\ c'.onEvict = c.onEvict
          /\ c'.calls = <<>>
          /\ c' = SetCallback(SetExpiry(NewLRU(c.capacity), c.expiration),
                              c.onEvict)]_vars

\* a Clear of a cache that held entries, had a callback, a default
\* expiration and room for two
C36_Witness ==
    /\ op.name = "Clear" /\ op.ok
    /\ c.cache = {} /\ c.list = <<>>
    /\ c.onEvict # Nil
    /\ c.expiration > 0
    /\ c.capacity = 2
    /\ c.calls = <<>>

\* C37: a successful Get(k) promotes k and changes no entry's expiresAt: the
\* time to live is not refreshed by reads.  The expiresAt of an entry that
\* stays in the cache changes only in a Set, an Update or an ExpandExpiry of
\* its key.
C37_GetKeepsExpiry ==
    [][/\ \A key \in c.cache \cap c'.cache :
             Element(c'.list, key).expiration # Element(c.list, key).expiration
             => /\ pc = "idle"
                /\ op'.name \in {"Set", "Update", "ExpandExpiry"}
                /\ op'.key = key
       /\ (Calls("Get") /\ op'.ok)
          => c'.list = <<Element(c.list, op'.key)>> \o Remove(c.list, op'.key)]_vars

\* a Get, later than the write of its key, has brought the key to the head
\* of two entries and the entry still expires when it did: sooner than an
\* entry written now
C37_Witness ==
    /\ op.name = "Get" /\ op.ok
    /\ now > StartTime
    /\ c.expiration > 0
    /\ Len(c.list) = 2
    /\ Front(c.list).key = op.key
    /\ Front(c.list).expiration < now + c.expiration
    /\ Front(c.list).expiration < Back(c.list).expiration

====
